---- MODULE Spec2Model ----
(***************************************************************************)
(* DataFluent (SeeSVi): the chart builder's data transformation.           *)
(*                                                                         *)
(* The ChartBuilder component holds five selections (chartType, xAxis,     *)
(* yAxis, groupBy, aggregation) over a dataset handed to it as a prop, and *)
(* derives chartData from them on every render (useMemo).  The dataset is  *)
(* fixed for the lifetime of the component: handleDataLoaded is reachable  *)
(* only from the upload screen, which is rendered only while no dataset is *)
(* loaded, and resetData removes the tabs that hold the component.         *)
(*                                                                         *)
(* The DataOverview component derives analysis (the types and null counts  *)
(* of the columns and the statistics of the numeric ones) from the same    *)
(* dataset on every render (useMemo).                                      *)
(*                                                                         *)
(* The ChatInterface component keeps the transcript messages, the input   *)
(* box, isLoading and showSQL; now is the clock Date.now() reads, timers   *)
(* are the pending timeouts with what their callbacks captured, and        *)
(* download is the file the last Download click produced.                  *)
(*                                                                         *)
(* JavaScript values are modelled as tagged records.  A cell of a row is   *)
(* a number, a string, a boolean, null or undefined; a JavaScript number   *)
(* is a finite rational, NaN or an infinity.  Sums and averages of the     *)
(* small integers used here are exact in IEEE doubles up to rounding that  *)
(* preserves their order, so rationals stand for them.                     *)
(***************************************************************************)
EXTENDS Integers, Sequences, FiniteSets, TLC

VARIABLES data, chartType, xAxis, yAxis, groupBy, aggregation, chartData,
          analysis,
          messages, input, isLoading, showSQL, now, timers, download

vars == <<data, chartType, xAxis, yAxis, groupBy, aggregation, chartData,
          analysis,
          messages, input, isLoading, showSQL, now, timers, download>>

\* the state of the chat, the clock and the pending timeouts
chatVars == <<messages, input, isLoading, showSQL, now, timers, download>>

(***************************************************************************)
(* Bounds of the model and constants of the program.                       *)
(***************************************************************************)
MaxRows == 3
MaxTail == 2

PickerSample == 10
PieLimit == 10
ScatterLimit == 1000
GroupLimit == 20
DirectLimit == 50

(***************************************************************************)
(* JavaScript numbers.                                                     *)
(***************************************************************************)
NaN == [k |-> "nan", n |-> 0, d |-> 1]
Inf(s) == [k |-> "inf", n |-> s, d |-> 1]

Abs(i) == IF i < 0 THEN -i ELSE i

RECURSIVE Gcd(_, _)
Gcd(a, b) == IF b = 0 THEN a ELSE Gcd(b, a % b)

\* the finite number n/d, d > 0, in lowest terms
Frac(n, d) ==
    LET g == Gcd(Abs(n), d)
    IN  [k |-> "fin", n |-> n \div g, d |-> d \div g]

Fin(n) == [k |-> "fin", n |-> n, d |-> 1]

isNaN(a) == a.k = "nan"

\* a + b
Add(a, b) ==
    CASE a.k = "nan" \/ b.k = "nan" -> NaN
      [] a.k = "inf" /\ b.k = "inf" -> IF a.n = b.n THEN a ELSE NaN
      [] a.k = "inf" -> a
      [] b.k = "inf" -> b
      [] OTHER -> Frac(a.n * b.d + b.n * a.d, a.d * b.d)

Neg(a) == IF a.k = "nan" THEN a ELSE [a EXCEPT !.n = -a.n]

\* a - b
Sub(a, b) == Add(a, Neg(b))

\* a / m for an array length m >= 0
DivLen(a, m) ==
    CASE a.k = "nan" -> NaN
      [] a.k = "inf" -> a
      [] m = 0 -> IF a.n = 0 THEN NaN ELSE Inf(IF a.n > 0 THEN 1 ELSE -1)
      [] OTHER -> Frac(a.n, a.d * m)

\* the sign of a number: -1, 0 or 1; NaN has no sign and is reported as 2
Sign(a) ==
    CASE a.k = "nan" -> 2
      [] a.n > 0 -> 1
      [] a.n < 0 -> -1
      [] OTHER -> 0

\* a >= b as JavaScript evaluates it: false when either side is NaN
Geq(a, b) == Sign(Sub(a, b)) \in {0, 1} \/ (a.k = "inf" /\ a = b)

isFinite(a) == a.k = "fin"

(***************************************************************************)
(* Cells of a row and their conversions.                                   *)
(***************************************************************************)
NumCell(i) == [t |-> "num", n |-> i, s |-> ""]
StrCell(s) == [t |-> "str", n |-> 0, s |-> s]
BoolCell(b) == [t |-> "bool", n |-> IF b THEN 1 ELSE 0, s |-> ""]
Null == [t |-> "null", n |-> 0, s |-> ""]
Undefined == [t |-> "undef", n |-> 0, s |-> ""]

\* Number(s) for a string: the empty string is 0, "Infinity" is the
\* infinity, and the other strings that occur in the datasets are not numeric
StringToNumber(s) ==
    CASE s = "" -> Fin(0)
      [] s = "Infinity" -> Inf(1)
      [] OTHER -> NaN

\* Number(v)
Number(v) ==
    CASE v.t = "num" -> Fin(v.n)
      [] v.t = "str" -> StringToNumber(v.s)
      [] v.t = "bool" -> Fin(v.n)
      [] v.t = "null" -> Fin(0)
      [] OTHER -> NaN

\* the truthiness of v, as in v || w and v && w
Truthy(v) ==
    CASE v.t = "num" -> v.n # 0
      [] v.t = "str" -> v.s # ""
      [] v.t = "bool" -> v.n = 1
      [] OTHER -> FALSE

\* String(v)
String(v) ==
    CASE v.t = "num" -> ToString(v.n)
      [] v.t = "str" -> v.s
      [] v.t = "bool" -> IF v.n = 1 THEN "true" ELSE "false"
      [] v.t = "null" -> "null"
      [] OTHER -> "undefined"

(***************************************************************************)
(* Rows and datasets.  A row maps the column names to cells; row[c] for a  *)
(* name that is no column of the row (the unset selection '') is           *)
(* undefined.                                                              *)
(***************************************************************************)
Row(c, s) == [city |-> c, sales |-> s]

Get(row, col) == IF col \in DOMAIN row THEN row[col] ELSE Undefined

\* a row without columns
EmptyRow == <<>>

\* the order in which the rows hold their keys
ColumnOrder == <<"city", "sales">>

\* Object.keys(data[0] || {}) in insertion order
columns(d) ==
    LET present(col) == col \in DOMAIN d[1]
    IN  IF Len(d) = 0 THEN <<>> ELSE SelectSeq(ColumnOrder, present)

Slice(seq, m) == SubSeq(seq, 1, IF Len(seq) < m THEN Len(seq) ELSE m)

Range(seq) == {seq[i] : i \in 1..Len(seq)}

\* the columns every one of whose first ten values is numeric, neither ''
\* nor null
numericColumns(d) ==
    LET sample == Slice(d, PickerSample)
        numeric(col) ==
            \A i \in 1..Len(sample) :
                /\ ~isNaN(Number(Get(sample[i], col)))
                /\ Get(sample[i], col) # StrCell("")
                /\ Get(sample[i], col) # Null
    IN  SelectSeq(columns(d), numeric)

textColumns(d) ==
    LET text(col) == col \notin Range(numericColumns(d))
    IN  SelectSeq(columns(d), text)

(***************************************************************************)
(* Object.entries of an object filled in the order given: the keys that    *)
(* are canonical array indices come first, in ascending numeric order, and *)
(* the other keys follow in insertion order.                               *)
(***************************************************************************)
MaxIndex == 10

\* the array index a key denotes, or -1 when it is no array index
ArrayIndex(s) ==
    IF \E n \in 0..MaxIndex : ToString(n) = s
    THEN CHOOSE n \in 0..MaxIndex : ToString(n) = s
    ELSE -1

ObjectEntries(groups) ==
    LET n == Len(groups)
        ix(i) == ArrayIndex(groups[i].name)
        indices == {i \in 1..n : ix(i) >= 0}
        rank(i) ==
            IF i \in indices
            THEN 1 + Cardinality({j \in indices : ix(j) < ix(i)})
            ELSE Cardinality(indices) + 1
                 + Cardinality({j \in (1..n) \ indices : j < i})
    IN  [p \in 1..n |-> groups[CHOOSE i \in 1..n : rank(i) = p]]

(***************************************************************************)
(* Array.prototype.sort with the comparator (a, b) => b.value - a.value.   *)
(* The sort is stable.  A comparator result of NaN counts as 0; when that  *)
(* makes the comparator inconsistent (a value compares equal to two values *)
(* that differ) the order of the result is implementation-defined.         *)
(***************************************************************************)
Compare(a, b) == Sub(b.value, a.value)

\* -1: a sorts before b; 1: b sorts before a; 0: they compare equal
Order(a, b) == IF isNaN(Compare(a, b)) THEN 0 ELSE Sign(Compare(a, b))

ConsistentComparator(seq) ==
    \A a, b, c \in Range(seq) : Order(a, b) = 0 => Order(a, c) = Order(b, c)

Insert(sorted, e) ==
    LET p == Cardinality({i \in 1..Len(sorted) : Order(sorted[i], e) <= 0})
    IN  SubSeq(sorted, 1, p) \o <<e>> \o SubSeq(sorted, p + 1, Len(sorted))

RECURSIVE StableSort(_, _)
StableSort(seq, i) ==
    IF i = 0 THEN <<>> ELSE Insert(StableSort(seq, i - 1), seq[i])

Rearrangements(seq) ==
    LET n == Len(seq)
        bijections == {f \in [1..n -> 1..n] : \A i, j \in 1..n : f[i] = f[j] => i = j}
    IN  {[i \in 1..n |-> seq[f[i]]] : f \in bijections}

\* the arrays sort may leave behind
SortByValueDesc(seq) ==
    IF ConsistentComparator(seq)
    THEN {StableSort(seq, Len(seq))}
    ELSE Rearrangements(seq)

(***************************************************************************)
(* chartData, pie branch: count the rows per key, sort descending by       *)
(* count, keep the first ten.                                              *)
(***************************************************************************)
\* String(row[xAxis] || 'Unknown')
PieKey(row, x) ==
    String(IF Truthy(Get(row, x)) THEN Get(row, x) ELSE StrCell("Unknown"))

\* the object groups after the first i rows, as its keys in insertion order
RECURSIVE PieGroups(_, _, _)
PieGroups(d, x, i) ==
    IF i = 0 THEN <<>>
    ELSE LET groups == PieGroups(d, x, i - 1)
             key == PieKey(d[i], x)
             at == {j \in 1..Len(groups) : groups[j].name = key}
         IN  IF at = {}
             THEN Append(groups, [name |-> key, value |-> Fin(1)])
             ELSE LET j == CHOOSE j \in at : TRUE
                  IN  [groups EXCEPT ![j].value = Add(@, Fin(1))]

PieSeries(d, x) ==
    {Slice(sorted, PieLimit) :
        sorted \in SortByValueDesc(ObjectEntries(PieGroups(d, x, Len(d))))}

(***************************************************************************)
(* chartData, scatter branch: the rows whose x and y are not NaN, in       *)
(* order, at most the first thousand.                                      *)
(***************************************************************************)
ScatterKeeps(row, x, y) ==
    ~isNaN(Number(Get(row, x))) /\ ~isNaN(Number(Get(row, y)))

ScatterPoint(row, x, y, g) ==
    [x |-> Number(Get(row, x)),
     y |-> Number(Get(row, y)),
     name |-> IF Truthy(Get(row, g)) THEN Get(row, g) ELSE StrCell("Data Point")]

ScatterSeries(d, x, y, g) ==
    LET keeps(row) == ScatterKeeps(row, x, y)
        kept == SelectSeq(d, keeps)
    IN  Slice([i \in 1..Len(kept) |-> ScatterPoint(kept[i], x, y, g)], ScatterLimit)

(***************************************************************************)
(* chartData, bar and line with a group-by column: collect the values of   *)
(* each bucket, reduce each bucket, sort descending, keep the first        *)
(* twenty.                                                                 *)
(***************************************************************************)
\* String(row[groupBy] || 'Unknown')
GroupKey(row, g) ==
    String(IF Truthy(Get(row, g)) THEN Get(row, g) ELSE StrCell("Unknown"))

\* the object groups after the first i rows, as its keys in insertion order
RECURSIVE Buckets(_, _, _, _)
Buckets(d, y, g, i) ==
    IF i = 0 THEN <<>>
    ELSE LET groups == Buckets(d, y, g, i - 1)
             key == GroupKey(d[i], g)
             created == IF \E j \in 1..Len(groups) : groups[j].name = key
                        THEN groups
                        ELSE Append(groups, [name |-> key, values |-> <<>>])
             j == CHOOSE j \in 1..Len(created) : created[j].name = key
             value == Number(Get(d[i], y))
         IN  IF ~isNaN(value)
             THEN [created EXCEPT ![j].values = Append(@, value)]
             ELSE created

\* values.reduce((sum, val) => sum + val, 0) over the first i values
RECURSIVE SumOf(_, _)
SumOf(values, i) ==
    IF i = 0 THEN Fin(0) ELSE Add(SumOf(values, i - 1), values[i])

\* Math.max(...values): minus infinity for no values
MathMax(values) ==
    IF Len(values) = 0 THEN Inf(-1)
    ELSE CHOOSE v \in Range(values) : \A w \in Range(values) : Geq(v, w)

\* Math.min(...values): plus infinity for no values
MathMin(values) ==
    IF Len(values) = 0 THEN Inf(1)
    ELSE CHOOSE v \in Range(values) : \A w \in Range(values) : Geq(w, v)

Aggregate(values, agg) ==
    CASE agg = "sum" -> SumOf(values, Len(values))
      [] agg = "avg" -> DivLen(SumOf(values, Len(values)), Len(values))
      [] agg = "count" -> Fin(Len(values))
      [] agg = "max" -> MathMax(values)
      [] agg = "min" -> MathMin(values)
      [] OTHER -> Fin(0)

GroupedSeries(d, y, g, agg) ==
    LET entries == ObjectEntries(Buckets(d, y, g, Len(d)))
        points == [i \in 1..Len(entries) |->
                      [name |-> entries[i].name,
                       value |-> Aggregate(entries[i].values, agg)]]
    IN  {Slice(sorted, GroupLimit) : sorted \in SortByValueDesc(points)}

(***************************************************************************)
(* chartData, bar and line without a group-by column: the rows with a      *)
(* truthy x and a y that is not NaN, in order, at most the first fifty.    *)
(***************************************************************************)
DirectKeeps(row, x, y) ==
    Truthy(Get(row, x)) /\ ~isNaN(Number(Get(row, y)))

DirectSeries(d, x, y) ==
    LET keeps(row) == DirectKeeps(row, x, y)
        kept == SelectSeq(d, keeps)
    IN  Slice([i \in 1..Len(kept) |->
                  [name |-> String(Get(kept[i], x)),
                   value |-> Number(Get(kept[i], y))]], DirectLimit)

(***************************************************************************)
(* chartData: the series the selections derive from the dataset, as the    *)
(* set of arrays the computation may return.                               *)
(***************************************************************************)
\* chartData with the check of the y column made before the chart type is
\* looked at
ChartDataYFirst(d, ct, x, y, g, agg) ==
    IF x = "" \/ y = "" THEN {<<>>}
    ELSE IF ct = "pie" THEN PieSeries(d, x)
    ELSE IF ct = "scatter" THEN {ScatterSeries(d, x, y, g)}
    ELSE IF g # "" THEN GroupedSeries(d, y, g, agg)
    ELSE {DirectSeries(d, x, y)}

\* chartData without the check that an x column is selected
ChartDataNoXCheck(d, ct, x, y, g, agg) ==
    IF ct = "pie" THEN PieSeries(d, x)
    ELSE IF ct = "scatter"
         THEN IF y = "" THEN {<<>>} ELSE {ScatterSeries(d, x, y, g)}
    ELSE IF y = "" THEN {<<>>}
    ELSE IF g # "" THEN GroupedSeries(d, y, g, agg)
    ELSE {DirectSeries(d, x, y)}

ChartData(d, ct, x, y, g, agg) ==
    IF x = "" THEN {<<>>}
    ELSE IF ct = "pie" THEN PieSeries(d, x)
    ELSE IF ct = "scatter"
         THEN IF y = "" THEN {<<>>} ELSE {ScatterSeries(d, x, y, g)}
    ELSE IF y = "" THEN {<<>>}
    ELSE IF g # "" THEN GroupedSeries(d, y, g, agg)
    ELSE {DirectSeries(d, x, y)}

(***************************************************************************)
(* DataOverview: analysis.  The types of the columns are voted on by the   *)
(* first hundred rows; the thresholds of the vote are fractions of the     *)
(* number of all rows.                                                     *)
(***************************************************************************)
SampleLimit == 100

\* every row, not only the first hundred
SampleAll(d) == d

\* data.slice(0, Math.min(100, data.length))
Sample(d) == Slice(d, IF SampleLimit < Len(d) THEN SampleLimit ELSE Len(d))

\* value === null || value === undefined || value === ''
Nullish(v) == v.t = "null" \/ v.t = "undef" \/ v = StrCell("")

\* Date.parse(s): a time for an ISO date, NaN for the other strings of the
\* datasets; only whether it is NaN is read
DateParse(s) == IF s = "2024-01-05" THEN Fin(1) ELSE NaN

\* the counter a sampled value increments
Vote(v) ==
    CASE Nullish(v) -> "null"
      [] ~isNaN(Number(v)) /\ v # StrCell("") -> "numeric"
      [] v.t = "str" /\ ~isNaN(DateParse(v.s)) -> "date"
      [] OTHER -> "none"

\* numericCount, nullCount and dateCount after the forEach over the sample
VoteCount(d, col, kind) ==
    Cardinality({i \in 1..Len(Sample(d)) : Vote(Get(d[i], col)) = kind})

RECURSIVE PowerOfTwoUpTo(_)
PowerOfTwoUpTo(m) == IF m < 2 THEN 1 ELSE 2 * PowerOfTwoUpTo(m \div 2)

\* The double 0.7 lies 0.4 * 2^-53 below 7/10, so the exact product of a
\* length and it lies 0.4 * length * 2^-53 below 7 * length / 10.  When that
\* is a whole number N, the product rounds to N unless 4 * N exceeds
\* 7 * 2^e, 2^e the power of two up to N: then it rounds to the double
\* just below N (90 * 0.7 is 62.99999999999999).
ProductBelowSevenTenths(len) ==
    /\ len > 0 /\ len % 10 = 0
    /\ 4 * ((7 * len) \div 10) > 7 * PowerOfTwoUpTo((7 * len) \div 10)

\* count > data.length * 0.7, for a whole count
ExceedsSevenTenths(count, len) ==
    \/ 10 * count > 7 * len
    \/ 10 * count = 7 * len /\ ProductBelowSevenTenths(len)

\* count > data.length * 0.5, for a whole count: the product is exact
ExceedsHalf(count, len) == 2 * count > len

\* no type for a column neither vote carries
ColumnTypeNoText(d, col) ==
    IF ExceedsSevenTenths(VoteCount(d, col, "numeric"), Len(d)) THEN "numeric"
    ELSE IF ExceedsHalf(VoteCount(d, col, "date"), Len(d)) THEN "date"
    ELSE "none"

\* the thresholds as fractions of the sample
ColumnTypeOfSample(d, col) ==
    IF ExceedsSevenTenths(VoteCount(d, col, "numeric"), Len(Sample(d))) THEN "numeric"
    ELSE IF ExceedsHalf(VoteCount(d, col, "date"), Len(Sample(d))) THEN "date"
    ELSE "text"

ColumnType(d, col) ==
    IF ExceedsSevenTenths(VoteCount(d, col, "numeric"), Len(d)) THEN "numeric"
    ELSE IF ExceedsHalf(VoteCount(d, col, "date"), Len(d)) THEN "date"
    ELSE "text"

\* the columns pushed to numericColumns, dateColumns or textColumns
ColumnsOfType(d, type) ==
    LET typed(col) == ColumnType(d, col) = type
    IN  SelectSeq(columns(d), typed)

\* the numbers of the rows after the sample only
StatValuesAfterSample(d, col) ==
    LET numbers == [i \in 1..Len(d) |-> Number(Get(d[i], col))]
        kept(val) == ~isNaN(val)
    IN  SelectSeq(SubSeq(numbers, SampleLimit + 1, Len(d)), kept)

\* data.map(row => Number(row[col])).filter(val => !isNaN(val))
StatValues(d, col) ==
    LET numbers == [i \in 1..Len(d) |-> Number(Get(d[i], col))]
        kept(val) == ~isNaN(val)
    IN  SelectSeq(numbers, kept)

\* the reading of the comparator (a, b) => a - b
AscendingOrder(a, b) == IF isNaN(Sub(a, b)) THEN 0 ELSE Sign(Sub(a, b))

\* values.sort((a, b) => a - b): the comparator orders the numbers it is
\* given consistently and tells apart all but equal ones, so the sort puts
\* every value after the smaller ones, next to its equals
SortAscending(values) ==
    LET n == Len(values)
        smaller(v) == Cardinality({j \in 1..n : AscendingOrder(values[j], v) < 0})
        equal(v) == Cardinality({j \in 1..n : AscendingOrder(values[j], v) = 0})
    IN  [p \in 1..n |->
            CHOOSE v \in Range(values) : smaller(v) < p /\ p <= smaller(v) + equal(v)]

\* values.reduce((sum, val) => sum + val, 0) over values[lo..hi]: the sums
\* of these numbers are exact, so the two halves are added apart
RECURSIVE Total(_, _, _)
Total(values, lo, hi) ==
    IF lo > hi THEN Fin(0)
    ELSE IF lo = hi THEN values[lo]
    ELSE Add(Total(values, lo, (lo + hi) \div 2),
             Total(values, (lo + hi) \div 2 + 1, hi))

\* numericStats[col], for a column with values
NumericStats(d, col) ==
    LET values == SortAscending(StatValues(d, col))
    IN  [min |-> MathMin(values),
         max |-> MathMax(values),
         mean |-> DivLen(Total(values, 1, Len(values)), Len(values)),
         median |-> values[(Len(values) \div 2) + 1],
         count |-> Len(values)]

\* what the component derives from no data
NoAnalysis == [null |-> TRUE]

\* the analysis of the rows of a dataset
Analyse(d) ==
    [rowCount |-> Len(d),
     columnCount |-> Len(columns(d)),
     columns |-> columns(d),
     columnTypes |-> [col \in Range(columns(d)) |-> ColumnType(d, col)],
     nullCounts |-> [col \in Range(columns(d)) |-> VoteCount(d, col, "null")],
     numericColumns |-> ColumnsOfType(d, "numeric"),
     textColumns |-> ColumnsOfType(d, "text"),
     dateColumns |-> ColumnsOfType(d, "date"),
     numericStats |->
         [col \in {c \in Range(ColumnsOfType(d, "numeric")) :
                      Len(StatValues(d, c)) > 0} |-> NumericStats(d, col)]]

\* the analysis without the guard of the empty dataset
AnalysisUnguarded(d) == Analyse(d)

\* if (!data || data.length === 0) return null
Analysis(d) == IF Len(d) = 0 THEN NoAnalysis ELSE Analyse(d)

\* the sum of the null counts of the first i columns
RECURSIVE TotalNulls(_, _)
TotalNulls(a, i) ==
    IF i = 0 THEN 0 ELSE TotalNulls(a, i - 1) + a.nullCounts[a.columns[i]]

\* x.toFixed(1) as the number it writes: x to one decimal, NaN for NaN
ToFixed1(x) ==
    IF x.k # "fin" THEN x
    ELSE Frac((20 * x.n + x.d) \div (2 * x.d), 10)

\* ((totalCells - totalNulls) / totalCells * 100).toFixed(1)
Completeness(a) ==
    LET totalCells == a.rowCount * a.columnCount
        totalNulls == TotalNulls(a, Len(a.columns))
        ratio == DivLen(Fin(totalCells - totalNulls), totalCells)
    IN  ToFixed1(IF ratio.k = "fin" THEN Frac(100 * ratio.n, ratio.d) ELSE ratio)

(***************************************************************************)
(* ChatInterface: the mocked replies and the CSV export.                   *)
(***************************************************************************)
ReplyDelay == 1500
MockDataLimit == 10

\* the clock when the chat is mounted
ClockStart == 1000

\* the texts typed or set by the badges under the input box
Inputs ==
    {"", "  ",
     "Show me the top 10 rows by revenue",
     "What's the correlation between key metrics?",
     "Create a monthly trend chart",
     "How many customers?",
     "highest sales"}

\* input.trim(), for the texts above
Trim(text) == IF text \in {"", "  "} THEN "" ELSE text

\* the words among those the generators look for that
\* query.toLowerCase() includes, for the texts above
Keywords(query) ==
    CASE query = "Show me the top 10 rows by revenue" -> {"top"}
      [] query = "What's the correlation between key metrics?" -> {"correlation"}
      [] query = "Create a monthly trend chart" -> {"chart"}
      [] query = "How many customers?" -> {"how many"}
      [] query = "highest sales" -> {"highest"}
      [] OTHER -> {}

\* query.toLowerCase().includes(word)
Includes(query, word) == word \in Keywords(query)

generateMockResponse(query, d) ==
    IF Includes(query, "top") \/ Includes(query, "highest")
    THEN "Based on your data, here are the top results. " \o ToString(Len(d))
             \o " total records."
    ELSE IF Includes(query, "correlation") \/ Includes(query, "relationship")
    THEN "I've analyzed the correlations in your dataset."
    ELSE IF Includes(query, "chart") \/ Includes(query, "visualization")
    THEN "I've created a visualization based on your request."
    ELSE IF Includes(query, "count") \/ Includes(query, "how many")
    THEN "Based on the analysis of your dataset: Total records: " \o ToString(Len(d))
    ELSE "I've analyzed your query about the dataset. " \o ToString(Len(d))
             \o " records."

generateMockSQL(query) ==
    IF Includes(query, "top")
    THEN "SELECT * FROM df ORDER BY revenue DESC LIMIT 10"
    ELSE IF Includes(query, "count")
    THEN "SELECT COUNT(*) as total_records, COUNT(DISTINCT customer_id) as unique_customers FROM df"
    ELSE IF Includes(query, "correlation")
    THEN "SELECT CORR(price, sales) as price_sales_correlation FROM df WHERE price IS NOT NULL AND sales IS NOT NULL"
    ELSE "SELECT * FROM df WHERE condition = true LIMIT 100"

\* the rows of the reply: <<rows>>, and <<>> for null
generateMockData(query, d) ==
    IF Includes(query, "top") THEN <<Slice(d, MockDataLimit)>> ELSE <<>>

\* a message; sql is "" and data is <<>> where the message has none
Message(id, type, content, sql, rows) ==
    [id |-> id, type |-> type, content |-> content, sql |-> sql, data |-> rows]

Greeting == Message("1", "assistant", "Hi! I'm ready to help you analyze your data.", "", <<>>)

\* JSON.stringify of a value
JSONStringify(v) ==
    CASE v.t = "num" -> ToString(v.n)
      [] v.t = "str" -> "\"" \o v.s \o "\""
      [] v.t = "bool" -> IF v.n = 1 THEN "true" ELSE "false"
      [] OTHER -> "null"

\* value || ''
OrEmptyString(v) == IF Truthy(v) THEN v ELSE StrCell("")

\* parts.join(separator) over the first i parts
RECURSIVE Join(_, _, _)
Join(parts, separator, i) ==
    IF i = 0 THEN ""
    ELSE IF i = 1 THEN parts[1]
    ELSE Join(parts, separator, i - 1) \o separator \o parts[i]

convertToCSV(d) ==
    IF Len(d) = 0 THEN ""
    ELSE LET headers == columns(d)
             line(row) ==
                 Join([h \in 1..Len(headers) |->
                          JSONStringify(OrEmptyString(Get(row, headers[h])))],
                      ",", Len(headers))
             lines == <<Join(headers, ",", Len(headers))>>
                          \o [i \in 1..Len(d) |-> line(d[i])]
         IN  Join(lines, "\n", Len(lines))

\* the chat as it is mounted
ChatMounted ==
    /\ messages = <<Greeting>>
    /\ input = ""
    /\ isLoading = FALSE
    /\ showSQL = <<>>
    /\ now = ClockStart
    /\ timers = <<>>
    /\ download = <<>>

(***************************************************************************)
(* The datasets the component is mounted with.  Short datasets are all the *)
(* sequences of at most MaxRows rows over one of a few row alphabets; long *)
(* datasets are ten equal rows, which fill the column pickers' sample,     *)
(* followed by at most MaxTail rows the sample does not see.               *)
(***************************************************************************)
SeqsUpTo(S, n) == UNION {[1..m -> S] : m \in 0..n}

Alphabets ==
    { {Row(StrCell("A"), NumCell(10)), Row(StrCell("B"), NumCell(5)),
       Row(StrCell("A"), NumCell(7))},
      {Row(NumCell(10), NumCell(5)), Row(NumCell(2), NumCell(5)),
       Row(StrCell("B"), NumCell(5))},
      {Row(NumCell(0), NumCell(7)), Row(Null, NumCell(10)),
       Row(StrCell("A"), NumCell(10))},
      {Row(StrCell("A"), StrCell("Infinity")), Row(StrCell("B"), NumCell(5))} }

HeadRow == Row(StrCell("A"), NumCell(5))

TailRows ==
    {Row(StrCell("B"), Null), Row(StrCell("B"), StrCell("n/a")),
     Row(StrCell("C"), NumCell(7))}

ShortDatasets == UNION {SeqsUpTo(rows, MaxRows) : rows \in Alphabets}

LongDatasets ==
    {[i \in 1..PickerSample |-> HeadRow] \o tail :
        tail \in SeqsUpTo(TailRows, MaxTail) \ {<<>>}}

Datasets == ShortDatasets \cup LongDatasets

ChartTypes == {"bar", "line", "scatter", "pie"}

Aggregations == {"sum", "avg", "count", "max", "min"}

(***************************************************************************)
(* The component.  Every selection re-renders it, which recomputes         *)
(* chartData from the new selections.                                      *)
(***************************************************************************)
Render ==
    chartData' \in ChartData(data', chartType', xAxis', yAxis', groupBy', aggregation')

Init ==
    /\ data \in Datasets
    /\ chartType = "bar"
    /\ xAxis = ""
    /\ yAxis = ""
    /\ groupBy = ""
    /\ aggregation = "sum"
    /\ chartData = <<>>
    /\ analysis = Analysis(data)
    /\ ChatMounted

\* a chart type button
SetChartType(t) ==
    /\ chartType' = t
    /\ UNCHANGED <<data, xAxis, yAxis, groupBy, aggregation, analysis>>
    /\ UNCHANGED chatVars
    /\ Render

\* the X Axis (Category) picker: the numeric columns for a scatter plot,
\* every column otherwise
SetXAxis(col) ==
    /\ col \in Range(IF chartType = "scatter" THEN numericColumns(data) ELSE columns(data))
    /\ xAxis' = col
    /\ UNCHANGED <<data, chartType, yAxis, groupBy, aggregation, analysis>>
    /\ UNCHANGED chatVars
    /\ Render

\* the Y Axis picker: not rendered for a pie chart
SetYAxis(col) ==
    /\ chartType # "pie"
    /\ col \in Range(numericColumns(data))
    /\ yAxis' = col
    /\ UNCHANGED <<data, chartType, xAxis, groupBy, aggregation, analysis>>
    /\ UNCHANGED chatVars
    /\ Render

\* the Group By picker: rendered for bar and line charts only
SetGroupBy(col) ==
    /\ chartType # "pie" /\ chartType # "scatter"
    /\ col \in {""} \cup Range(textColumns(data))
    /\ groupBy' = col
    /\ UNCHANGED <<data, chartType, xAxis, yAxis, aggregation, analysis>>
    /\ UNCHANGED chatVars
    /\ Render

\* the Aggregation picker: rendered while a group-by column is selected
SetAggregation(agg) ==
    /\ groupBy # "" /\ chartType # "pie"
    /\ aggregation' = agg
    /\ UNCHANGED <<data, chartType, xAxis, yAxis, groupBy, analysis>>
    /\ UNCHANGED chatVars
    /\ Render

Next ==
    \/ \E t \in ChartTypes : SetChartType(t)
    \/ \E col \in {"city", "sales"} : SetXAxis(col)
    \/ \E col \in {"city", "sales"} : SetYAxis(col)
    \/ \E col \in {"", "city", "sales"} : SetGroupBy(col)
    \/ \E agg \in Aggregations : SetAggregation(agg)

Spec == Init /\ [][Next]_vars

(***************************************************************************)
(* The application around the overview.  The upload view is shown while    *)
(* there is no data; a loaded dataset replaces it by the tabs, whose       *)
(* overview derives analysis from the dataset; Upload New Data goes back.  *)
(*                                                                         *)
(* The datasets handed over are short ones, of at most MaxOverviewRows     *)
(* rows with present, missing, numeric, date and text values, and long     *)
(* ones: a run of rows with a date and a number followed by rows without,  *)
(* of lengths at the sample limit and at the lengths where the thresholds  *)
(* of the vote pass the sample limit, split at the thresholds.             *)
(***************************************************************************)
MaxOverviewRows == 4
MaxOver == 2

OverviewRows ==
    {Row(StrCell("A"), NumCell(5)),
     Row(StrCell("2024-01-05"), NumCell(7)),
     Row(Null, Null),
     Row(NumCell(2), StrCell("n/a")),
     EmptyRow}

ShortOverviewDatasets == SeqsUpTo(OverviewRows, MaxOverviewRows)

LongHeadRow == Row(StrCell("2024-01-05"), NumCell(5))

LongTailRows == {Row(Null, StrCell("n/a")), Row(StrCell("A"), Null)}

LongSizes == {b + j : b \in {89, 99, 142, 199}, j \in 0..MaxOver}

SplitPoints(n) ==
    {k \in 1..n : k \in {(7 * n) \div 10, (7 * n) \div 10 + 1,
                         n \div 2, n \div 2 + 1, SampleLimit, n}}

LongOverviewDatasets ==
    UNION {{[i \in 1..n |-> IF i <= k THEN LongHeadRow ELSE tail] :
               k \in SplitPoints(n), tail \in LongTailRows} : n \in LongSizes}

OverviewDatasets == ShortOverviewDatasets \cup LongOverviewDatasets

InitOverview ==
    /\ data = <<>>
    /\ chartType = "bar"
    /\ xAxis = ""
    /\ yAxis = ""
    /\ groupBy = ""
    /\ aggregation = "sum"
    /\ chartData = <<>>
    /\ analysis = Analysis(data)
    /\ ChatMounted

HandleDataLoaded(newData) ==
    /\ Len(data) = 0
    /\ data' = newData
    /\ analysis' = Analysis(data')
    /\ UNCHANGED <<chartType, xAxis, yAxis, groupBy, aggregation, chartData>>
    /\ UNCHANGED chatVars

ResetData ==
    /\ Len(data) > 0
    /\ data' = <<>>
    /\ analysis' = Analysis(data')
    /\ UNCHANGED <<chartType, xAxis, yAxis, groupBy, aggregation, chartData>>
    /\ UNCHANGED chatVars

NextOverview ==
    \/ \E newData \in OverviewDatasets : HandleDataLoaded(newData)
    \/ ResetData

SpecOverview == InitOverview /\ [][NextOverview]_vars

(***************************************************************************)
(* The chat.  The component is mounted over a dataset; the user types or   *)
(* picks a text, sends it, toggles the SQL of a reply and downloads its    *)
(* rows; time passes and the timeout of a sent message fires.  The         *)
(* transcript is capped at MaxMessages messages, and the clock runs for    *)
(* MaxRounds reply delays, by the delay or by a millisecond, at most       *)
(* MaxJitter milliseconds past a multiple of the delay.                    *)
(***************************************************************************)
MaxMessages == 5
MaxRounds == 2
MaxJitter == 1

MaxClock == ClockStart + MaxRounds * ReplyDelay + MaxJitter

ChatDatasets ==
    {<<Row(StrCell("A"), NumCell(5)), Row(StrCell("B"), NumCell(0))>>,
     <<Row(NumCell(0), Null), [city |-> StrCell("A")]>>,
     [i \in 1..MockDataLimit + 1 |-> Row(StrCell("A"), NumCell(i))]}

\* what the chat leaves alone
pageVars == <<data, chartType, xAxis, yAxis, groupBy, aggregation, chartData,
              analysis>>

InitChat ==
    /\ data \in ChatDatasets
    /\ chartType = "bar"
    /\ xAxis = ""
    /\ yAxis = ""
    /\ groupBy = ""
    /\ aggregation = "sum"
    /\ chartData = <<>>
    /\ analysis = Analysis(data)
    /\ ChatMounted

\* onChange of the input box, and the badges under it
SetInput(text) ==
    /\ input' = text
    /\ UNCHANGED <<messages, isLoading, showSQL, now, timers, download>>
    /\ UNCHANGED pageVars

\* a send that does not look at isLoading
HandleSendMessageWhileLoading ==
    IF Trim(input) = "" THEN UNCHANGED vars
    ELSE /\ Len(messages) + 2 <= MaxMessages
         /\ now + ReplyDelay <= MaxClock
         /\ messages' = Append(messages,
                               Message(ToString(now), "user", input, "", <<>>))
         /\ input' = ""
         /\ isLoading' = TRUE
         /\ timers' = Append(timers, [due |-> now + ReplyDelay, query |-> input])
         /\ UNCHANGED <<showSQL, now, download>>
         /\ UNCHANGED pageVars

\* Enter in the input box, or the Send button: the message is appended and
\* the timeout is set, its callback holding the input of this render
HandleSendMessage ==
    IF Trim(input) = "" \/ isLoading THEN UNCHANGED vars
    ELSE /\ Len(messages) + 2 <= MaxMessages
         /\ now + ReplyDelay <= MaxClock
         /\ messages' = Append(messages,
                               Message(ToString(now), "user", input, "", <<>>))
         /\ input' = ""
         /\ isLoading' = TRUE
         /\ timers' = Append(timers, [due |-> now + ReplyDelay, query |-> input])
         /\ UNCHANGED <<showSQL, now, download>>
         /\ UNCHANGED pageVars

\* a callback that reads the input box when it runs
TimerFiresReadsInput ==
    /\ Len(timers) > 0
    /\ now >= Head(timers).due
    /\ messages' = Append(messages,
                          Message(ToString(now + 1), "assistant",
                                  generateMockResponse(input, data),
                                  generateMockSQL(input),
                                  generateMockData(input, data)))
    /\ isLoading' = FALSE
    /\ timers' = Tail(timers)
    /\ UNCHANGED <<input, showSQL, now, download>>
    /\ UNCHANGED pageVars

\* the callback of setTimeout, not before its delay has passed
TimerFires ==
    /\ Len(timers) > 0
    /\ now >= Head(timers).due
    /\ messages' = Append(messages,
                          Message(ToString(now + 1), "assistant",
                                  generateMockResponse(Head(timers).query, data),
                                  generateMockSQL(Head(timers).query),
                                  generateMockData(Head(timers).query, data)))
    /\ isLoading' = FALSE
    /\ timers' = Tail(timers)
    /\ UNCHANGED <<input, showSQL, now, download>>
    /\ UNCHANGED pageVars

\* time passes
Tick(dt) ==
    /\ now + dt <= MaxClock
    /\ dt = 1 => (now - ClockStart) % ReplyDelay < MaxJitter
    /\ now' = now + dt
    /\ UNCHANGED <<messages, input, isLoading, showSQL, timers, download>>
    /\ UNCHANGED pageVars

\* the Show / Hide SQL button of message i
ToggleSQL(i) ==
    /\ i \in 1..Len(messages)
    /\ messages[i].type = "assistant" /\ messages[i].sql # ""
    /\ LET messageId == messages[i].id
           shown == messageId \in DOMAIN showSQL /\ showSQL[messageId]
       IN  showSQL' = [id \in DOMAIN showSQL \cup {messageId} |->
                          IF id = messageId THEN ~shown ELSE showSQL[id]]
    /\ UNCHANGED <<messages, input, isLoading, now, timers, download>>
    /\ UNCHANGED pageVars

\* the Download button of message i
DownloadData(i) ==
    /\ i \in 1..Len(messages)
    /\ messages[i].type = "assistant" /\ messages[i].sql # ""
    /\ messages[i].data # <<>>
    /\ download' = <<[name |-> "query_result_" \o messages[i].id \o ".csv",
                      content |-> convertToCSV(messages[i].data[1])]>>
    /\ UNCHANGED <<messages, input, isLoading, showSQL, now, timers>>
    /\ UNCHANGED pageVars

NextChat ==
    \/ \E text \in Inputs : SetInput(text)
    \/ HandleSendMessage
    \/ TimerFires
    \/ \E dt \in {1, ReplyDelay} : Tick(dt)
    \/ \E i \in 1..MaxMessages : ToggleSQL(i)
    \/ \E i \in 1..MaxMessages : DownloadData(i)

SpecChat == InitChat /\ [][NextChat]_vars

\* time goes on, and a timeout that is due runs
SpecChatLive ==
    /\ SpecChat
    /\ WF_vars(\E dt \in {1, ReplyDelay} : Tick(dt))
    /\ WF_vars(TimerFires)

(***************************************************************************)
(* Notions the properties below are stated in.                             *)
(***************************************************************************)
\* a missing value: null, undefined or the empty string
Missing(v) == v.t \in {"null", "undef"} \/ v = StrCell("")

\* the label of a value: its string, and "Unknown" for a missing value
LabelOf(v) == IF Missing(v) THEN "Unknown" ELSE String(v)

\* a value that parses as a number: present, and not NaN as a number
Parses(v) == ~Missing(v) /\ ~isNaN(Number(v))

Grouped ==
    /\ chartType \in {"bar", "line"}
    /\ xAxis # "" /\ yAxis # "" /\ groupBy # ""

Pie == chartType = "pie" /\ xAxis # ""

Scatter == chartType = "scatter" /\ xAxis # "" /\ yAxis # ""

Points == 1..Len(chartData)

\* the rows of the dataset whose value in column col has the label given
RowsLabelled(col, label) ==
    {i \in 1..Len(data) : LabelOf(Get(data[i], col)) = label}

\* the rows the code files under the key given
RowsKeyed(col, key) ==
    {i \in 1..Len(data) : GroupKey(data[i], col) = key}

FirstRow(rows) == CHOOSE i \in rows : \A j \in rows : i <= j

\* the sum of the y values that are not NaN over the rows given, among the
\* first i rows of the dataset
RECURSIVE SumOverRows(_, _)
SumOverRows(rows, i) ==
    IF i = 0 THEN Fin(0)
    ELSE IF i \in rows /\ ~isNaN(Number(Get(data[i], yAxis)))
         THEN Add(SumOverRows(rows, i - 1), Number(Get(data[i], yAxis)))
         ELSE SumOverRows(rows, i - 1)

NonIncreasing ==
    \A i \in Points : i < Len(chartData) => Geq(chartData[i].value, chartData[i + 1].value)

\* points of equal value stand in the order of the first rows of their keys
TiesInFirstSeenOrder(col) ==
    \A i, j \in Points :
        (i < j /\ chartData[i].value = chartData[j].value /\ ~isNaN(chartData[i].value))
            => FirstRow(RowsKeyed(col, chartData[i].name))
                   < FirstRow(RowsKeyed(col, chartData[j].name))

(***************************************************************************)
(* C1: for bar/line with a group-by column and aggregation sum, the series *)
(* holds one point per distinct label of the group-by column, and the      *)
(* value of each point is the sum of the numeric y values of exactly the   *)
(* rows with that label.                                                   *)
(***************************************************************************)
C1_SumPerLabel ==
    (Grouped /\ aggregation = "sum") =>
        LET labels == {LabelOf(Get(data[i], groupBy)) : i \in 1..Len(data)}
        IN  /\ Len(chartData) = Cardinality(labels)
            /\ {chartData[i].name : i \in Points} = labels
            /\ \A i \in Points :
                   chartData[i].value
                       = SumOverRows(RowsLabelled(groupBy, chartData[i].name), Len(data))

(***************************************************************************)
(* C2: for every aggregation the grouped series has at most twenty points  *)
(* and the value of every point is greater than or equal to the value of   *)
(* the point after it, also when a bucket retains no numeric value.        *)
(***************************************************************************)
C2_GroupedSortedDescending ==
    Grouped => (Len(chartData) <= GroupLimit /\ NonIncreasing)

(***************************************************************************)
(* C3: in the grouped series, buckets of equal aggregated value stand in   *)
(* the order in which their first rows occur in the dataset, also for      *)
(* labels that are digit strings.                                          *)
(***************************************************************************)
C3_GroupedTiesFirstEncountered ==
    Grouped => TiesInFirstSeenOrder(groupBy)

(***************************************************************************)
(* C4: in grouped aggregation a row whose y value is not a number (text,   *)
(* or missing) contributes nothing to its bucket: with aggregation count,  *)
(* the value of a point is the number of rows of its bucket whose y value  *)
(* is numeric.                                                             *)
(***************************************************************************)
C4_CountSkipsNonNumeric ==
    (Grouped /\ aggregation = "count") =>
        \A i \in Points :
            chartData[i].value
                = Fin(Cardinality({r \in RowsKeyed(groupBy, chartData[i].name) :
                                      Parses(Get(data[r], yAxis))}))

(***************************************************************************)
(* C5: with aggregation max or min, every bucket that reaches the          *)
(* reduction holds at least one value.                                     *)
(***************************************************************************)
C5_ExtremumNeverOnEmptyBucket ==
    (Grouped /\ aggregation \in {"max", "min"}) =>
        \A b \in Range(Buckets(data, yAxis, groupBy, Len(data))) : Len(b.values) > 0

(***************************************************************************)
(* C6: the pie series has at most ten points, its counts are               *)
(* non-increasing, and groups of equal count stand in the order in which   *)
(* they are first seen in the dataset, also for digit-string labels.       *)
(***************************************************************************)
C6_PieSortedTiesFirstSeen ==
    Pie => /\ Len(chartData) <= PieLimit
           /\ NonIncreasing
           /\ TiesInFirstSeenOrder(xAxis)

(***************************************************************************)
(* C7: for pie, each row is counted under the string of its x value, and   *)
(* under "Unknown" exactly when that value is missing; a present value     *)
(* such as the number 0 is counted under its own label; before truncation  *)
(* the counts sum to the row count.                                        *)
(***************************************************************************)
C7_PieCountsPerLabel ==
    Pie =>
        LET labels == {LabelOf(Get(data[i], xAxis)) : i \in 1..Len(data)}
        IN  Cardinality(labels) <= PieLimit =>
                /\ {chartData[i].name : i \in Points} = labels
                /\ Len(chartData) = Cardinality(labels)
                /\ \A i \in Points :
                       chartData[i].value
                           = Fin(Cardinality(RowsLabelled(xAxis, chartData[i].name)))

(***************************************************************************)
(* C8: for pie the series depends on none of yAxis, groupBy and            *)
(* aggregation; for scatter the coordinates of the points, their number    *)
(* and their order do not depend on groupBy, which only names the points.  *)
(***************************************************************************)
Selectable == {"", "city", "sales"}

Coordinates(series) == [i \in 1..Len(series) |-> <<series[i].x, series[i].y>>]

C8_PieAndScatterCoordinatesIgnoreGroupBy ==
    /\ chartType = "pie" =>
           \A y \in Selectable, g \in Selectable, agg \in Aggregations :
               ChartData(data, "pie", xAxis, y, g, agg) = {chartData}
    /\ chartType = "scatter" =>
           \A g \in Selectable :
               \A series \in ChartData(data, "scatter", xAxis, yAxis, g, aggregation) :
                   Coordinates(series) = Coordinates(chartData)

\* a scatter plot whose points the selected group-by column names
C8_ScatterNamedByGroupBy ==
    /\ chartType = "scatter" /\ groupBy # "" /\ Len(chartData) > 1
    /\ \E i \in Points : chartData[i].name # StrCell("Data Point")
    /\ ChartData(data, "scatter", xAxis, yAxis, "", aggregation) # {chartData}

\* C8 as stated: for pie and scatter the whole series is the same for every
\* group-by column the picker offers
C8_SeriesIgnoresGroupBy ==
    chartType \in {"pie", "scatter"} =>
        \A g \in {""} \cup Range(textColumns(data)) :
            ChartData(data, chartType, xAxis, yAxis, g, aggregation) = {chartData}

(***************************************************************************)
(* C9: the scatter series has at most a thousand points and both           *)
(* coordinates of every point are finite numbers.                          *)
(***************************************************************************)
C9_ScatterPointsFinite ==
    Scatter =>
        /\ Len(chartData) <= ScatterLimit
        /\ \A i \in Points : isFinite(chartData[i].x) /\ isFinite(chartData[i].y)

(***************************************************************************)
(* C10: the scatter series is the first thousand, in dataset order, of the *)
(* rows whose x and y both parse as numbers; a row whose x or y is missing *)
(* is filtered out and not plotted at coordinate 0.                        *)
(***************************************************************************)
C10_ScatterKeepsParseableRows ==
    Scatter =>
        LET parses(row) == Parses(Get(row, xAxis)) /\ Parses(Get(row, yAxis))
            kept == SelectSeq(data, parses)
        IN  Coordinates(chartData)
                = Slice([i \in 1..Len(kept) |->
                            <<Number(Get(kept[i], xAxis)), Number(Get(kept[i], yAxis))>>],
                        ScatterLimit)

(***************************************************************************)
(* C11: for bar/line without a group-by column the series is the first     *)
(* fifty, in dataset order, of the rows with a numeric y and a non-empty   *)
(* x, each as {label: String(x), value: Number(y)}; a row whose x is the   *)
(* number 0 is kept and a row whose y is missing is dropped.               *)
(***************************************************************************)
Direct ==
    /\ chartType \in {"bar", "line"}
    /\ xAxis # "" /\ yAxis # "" /\ groupBy = ""

C11_DirectKeepsPresentXNumericY ==
    Direct =>
        LET keeps(row) == ~Missing(Get(row, xAxis)) /\ Parses(Get(row, yAxis))
            kept == SelectSeq(data, keeps)
        IN  chartData
                = Slice([i \in 1..Len(kept) |->
                            [name |-> String(Get(kept[i], xAxis)),
                             value |-> Number(Get(kept[i], yAxis))]],
                        DirectLimit)

(***************************************************************************)
(* C12: with no x column selected the series is empty; with no y column    *)
(* selected the series of a bar, line or scatter chart is empty; a pie     *)
(* chart over a dataset with rows is not empty, whether or not a y column  *)
(* is selected.                                                            *)
(***************************************************************************)
C12_IncompleteSelectionsGiveEmptySeries ==
    /\ xAxis = "" => chartData = <<>>
    /\ (yAxis = "" /\ chartType \in {"bar", "line", "scatter"}) => chartData = <<>>
    /\ (chartType = "pie" /\ xAxis # "" /\ Len(data) > 0) => Len(chartData) > 0

\* a pie chart drawn while no y column is selected
C12_PieWithoutY ==
    /\ chartType = "pie" /\ xAxis # "" /\ yAxis = ""
    /\ Len(chartData) > 0

(***************************************************************************)
(* The overview.                                                           *)
(***************************************************************************)
\* the rows the votes are counted over: the first hundred, or all of fewer
SampleSize == IF Len(data) < 100 THEN Len(data) ELSE 100

\* the column names of the first row
FirstRowColumns == DOMAIN data[1]

\* a string that parses as a calendar date
DateString(v) == v.t = "str" /\ ~isNaN(DateParse(v.s))

(***************************************************************************)
(* C13: for the empty dataset the analysis is the null result, and the     *)
(* chart transformation returns the empty series for every chart type and  *)
(* every selection of axes, group-by and aggregation.                      *)
(***************************************************************************)
C13_EmptyDatasetGivesEmptyResults ==
    Len(data) = 0 =>
        /\ analysis = NoAnalysis
        /\ \A ct \in ChartTypes, agg \in Aggregations :
               \A x, y, g \in {"", "city", "sales"} :
                   ChartData(data, ct, x, y, g, agg) = {<<>>}

C13_NothingLoaded ==
    /\ Len(data) = 0
    /\ analysis = NoAnalysis
    /\ chartData = <<>>

(***************************************************************************)
(* C14: for a non-empty dataset every column of the first row has exactly  *)
(* one type among numeric, date and text: the three lists are pairwise     *)
(* disjoint, their union is the column set, and every column has a null    *)
(* count.                                                                  *)
(***************************************************************************)
C14_EveryColumnHasOneType ==
    Len(data) > 0 =>
        LET numeric == Range(analysis.numericColumns)
            date == Range(analysis.dateColumns)
            text == Range(analysis.textColumns)
        IN  /\ Range(analysis.columns) = FirstRowColumns
            /\ DOMAIN analysis.columnTypes = FirstRowColumns
            /\ DOMAIN analysis.nullCounts = FirstRowColumns
            /\ \A col \in FirstRowColumns :
                   /\ analysis.columnTypes[col] \in {"numeric", "date", "text"}
                   /\ analysis.nullCounts[col] \in Nat
                   /\ col \in numeric <=> analysis.columnTypes[col] = "numeric"
                   /\ col \in date <=> analysis.columnTypes[col] = "date"
                   /\ col \in text <=> analysis.columnTypes[col] = "text"
            /\ numeric \cap date = {} /\ numeric \cap text = {} /\ date \cap text = {}
            /\ numeric \cup date \cup text = FirstRowColumns

C14_DateAndNumericColumn ==
    /\ Len(data) > 0
    /\ analysis.dateColumns = <<"city">>
    /\ analysis.numericColumns = <<"sales">>
    /\ analysis.textColumns = <<>>

(***************************************************************************)
(* C15: a column is numeric exactly when the numeric values among the      *)
(* first min(100, rowCount) rows are more than 70% of the row count;       *)
(* otherwise date exactly when the date strings that are not numeric are   *)
(* more than 50% of the row count; otherwise text.  Missing values vote    *)
(* for neither.                                                            *)
(***************************************************************************)
C15_TypeByVotes ==
    Len(data) > 0 =>
        \A col \in FirstRowColumns :
            LET numericVotes ==
                    Cardinality({i \in 1..SampleSize : Parses(Get(data[i], col))})
                dateVotes ==
                    Cardinality({i \in 1..SampleSize :
                        /\ ~Missing(Get(data[i], col))
                        /\ ~Parses(Get(data[i], col))
                        /\ DateString(Get(data[i], col))})
            IN  analysis.columnTypes[col] =
                    IF 10 * numericVotes > 7 * Len(data) THEN "numeric"
                    ELSE IF 2 * dateVotes > Len(data) THEN "date"
                    ELSE "text"

(***************************************************************************)
(* C16: with at least 143 rows no column is numeric, and with at least     *)
(* 200 rows no column is date either, so every column is text, even one    *)
(* whose every value is a number.                                          *)
(***************************************************************************)
C16_LargeDatasetsAllText ==
    /\ Len(data) >= 143 => analysis.numericColumns = <<>>
    /\ Len(data) >= 200 =>
           /\ analysis.dateColumns = <<>>
           /\ \A col \in FirstRowColumns : analysis.columnTypes[col] = "text"

C16_AllNumbersYetText ==
    /\ Len(data) >= 143
    /\ \A i \in 1..Len(data) : Parses(Get(data[i], "sales"))
    /\ analysis.columnTypes["sales"] = "text"

(***************************************************************************)
(* C17: the null count of a column is the number of rows among the first   *)
(* min(100, rowCount) whose value is null, undefined or the empty string;  *)
(* it is at most min(100, rowCount), and a missing value after the first   *)
(* hundred rows does not count.                                            *)
(***************************************************************************)
C17_NullCountOverSample ==
    Len(data) > 0 =>
        \A col \in FirstRowColumns :
            /\ analysis.nullCounts[col]
                   = Cardinality({i \in 1..SampleSize : Missing(Get(data[i], col))})
            /\ analysis.nullCounts[col] <= SampleSize

C17_MissingAfterSampleNotCounted ==
    /\ Len(data) > 100
    /\ \E i \in 101..Len(data) : Missing(Get(data[i], "city"))
    /\ analysis.nullCounts["city"] = 0

(***************************************************************************)
(* C18: for every column classified numeric, the null count plus the       *)
(* count of its statistics is the row count.                               *)
(***************************************************************************)
C18_NullsPlusCountIsRowCount ==
    Len(data) > 0 =>
        \A col \in Range(analysis.numericColumns) :
            col \in DOMAIN analysis.numericStats =>
                analysis.nullCounts[col] + analysis.numericStats[col].count = Len(data)

(***************************************************************************)
(* C19: for every non-empty dataset, one whose first row has no columns    *)
(* included, the completeness percentage is a number from 0 to 100, and    *)
(* it is 100 when no column has a missing value in the sample.             *)
(***************************************************************************)
C19_CompletenessWithinBounds ==
    Len(data) > 0 =>
        LET percent == Completeness(analysis)
            complete == \A col \in FirstRowColumns, i \in 1..SampleSize :
                            ~Missing(Get(data[i], col))
        IN  /\ percent.k = "fin"
            /\ Geq(percent, Fin(0)) /\ Geq(Fin(100), percent)
            /\ complete => percent = Fin(100)

(***************************************************************************)
(* C20: the statistics of a numeric column are those of the values of all  *)
(* rows that parse as numbers, missing values discarded: min and max are   *)
(* the least and the greatest, median is the element at index              *)
(* floor(count / 2) of the values in ascending order, and                  *)
(* min <= median <= max.                                                   *)
(***************************************************************************)
C20_StatsOverParsedValues ==
    Len(data) > 0 =>
        \A col \in DOMAIN analysis.numericStats :
            LET rows == {i \in 1..Len(data) : Parses(Get(data[i], col))}
                value(i) == Number(Get(data[i], col))
                below(i) == Cardinality({j \in rows : ~Geq(value(j), value(i))})
                upTo(i) == Cardinality({j \in rows : Geq(value(i), value(j))})
                stats == analysis.numericStats[col]
            IN  /\ stats.count = Cardinality(rows)
                /\ \E i \in rows : stats.min = value(i) /\ below(i) = 0
                /\ \E i \in rows : stats.max = value(i) /\ upTo(i) = stats.count
                /\ \E i \in rows :
                       /\ stats.median = value(i)
                       /\ below(i) <= stats.count \div 2
                       /\ stats.count \div 2 < upTo(i)
                /\ Geq(stats.median, stats.min) /\ Geq(stats.max, stats.median)

(***************************************************************************)
(* C22: the numeric columns the chart builder offers for the Y axis and    *)
(* the scatter X axis are the columns the overview classifies numeric.     *)
(***************************************************************************)
C22_PickerColumnsAreInferredNumeric ==
    Len(data) > 0 =>
        Range(numericColumns(data)) = Range(analysis.numericColumns)

(***************************************************************************)
(* C23: every column classified numeric has a statistics entry with a      *)
(* count of at least one, so the keys of numericStats are the numeric      *)
(* columns.                                                                *)
(***************************************************************************)
C23_NumericColumnsHaveStats ==
    Len(data) > 0 =>
        /\ DOMAIN analysis.numericStats = Range(analysis.numericColumns)
        /\ \A col \in Range(analysis.numericColumns) :
               analysis.numericStats[col].count >= 1

\* a numeric column with a value that does not parse, and its statistics
C23_NumericColumnWithText ==
    /\ Len(data) > 0
    /\ "sales" \in Range(analysis.numericColumns)
    /\ \E i \in 1..Len(data) : Get(data[i], "sales") = StrCell("n/a")
    /\ analysis.numericStats["sales"].count >= 1

(***************************************************************************)
(* C27: after any selections, under scatter the X column is unset or one   *)
(* of the numeric columns, and under pie and scatter the group-by          *)
(* selection has no effect on the series.                                  *)
(***************************************************************************)
C27_SelectionsDoNotLeak ==
    /\ chartType = "scatter" =>
           xAxis = "" \/ xAxis \in Range(numericColumns(data))
    /\ chartType \in {"pie", "scatter"} =>
           ChartData(data, chartType, xAxis, yAxis, "", aggregation) = {chartData}

(***************************************************************************)
(* The chat.                                                               *)
(***************************************************************************)
\* the reply the generators give to a text
ReplyTo(text, message) ==
    /\ message.type = "assistant"
    /\ message.content = generateMockResponse(text, data)
    /\ message.sql = generateMockSQL(text)
    /\ message.data = generateMockData(text, data)

\* the transcript is only appended to
AppendOnly ==
    /\ Len(messages') >= Len(messages)
    /\ SubSeq(messages', 1, Len(messages)) = messages

(***************************************************************************)
(* C21: the CSV export of a non-empty row list is the column names of the  *)
(* first row joined by commas, then one line per row in order with one     *)
(* field per column, every value wrapped in double quotes, numbers         *)
(* included, the number 0 exported as 0; the export of no rows is the      *)
(* empty string.                                                           *)
(***************************************************************************)
C21_ExportQuotesEveryValue ==
    /\ convertToCSV(<<>>) = ""
    /\ download # <<>> =>
           \E i \in 1..Len(messages) :
               /\ messages[i].data # <<>>
               /\ download[1].name = "query_result_" \o messages[i].id \o ".csv"
               /\ LET rows == messages[i].data[1]
                      names == SelectSeq(ColumnOrder, LAMBDA col : col \in DOMAIN rows[1])
                      field(v) == "\"" \o (IF Missing(v) THEN "" ELSE String(v)) \o "\""
                      line(row) == Join([h \in 1..Len(names) |-> field(Get(row, names[h]))],
                                        ",", Len(names))
                      lines == <<Join(names, ",", Len(names))>>
                                   \o [r \in 1..Len(rows) |-> line(rows[r])]
                  IN  download[1].content = Join(lines, "\n", Len(lines))

(***************************************************************************)
(* C24: at most one reply is pending; a send while isLoading, or with a    *)
(* blank input, leaves messages, input and isLoading unchanged; the        *)
(* transcript after the greeting alternates user message, assistant        *)
(* message.                                                                *)
(***************************************************************************)
C24_OneReplyPendingAndAlternation ==
    /\ [](/\ Len(timers) <= 1
          /\ isLoading <=> Len(timers) = 1
          /\ messages[1] = Greeting
          /\ \A i \in 2..Len(messages) :
                 messages[i].type = IF i % 2 = 0 THEN "user" ELSE "assistant"
          /\ isLoading <=> Len(messages) % 2 = 0)
    /\ [][(HandleSendMessage /\ (isLoading \/ Trim(input) = ""))
              => UNCHANGED <<messages, input, isLoading>>]_vars

\* a text is in the input box while the reply to the second message is
\* awaited
C24_SendWhileLoadingPossible ==
    /\ Len(messages) = 4
    /\ isLoading
    /\ Trim(input) # ""

C26_MessageIdsDistinct ==
    /\ \A i, j \in 1..Len(messages) : i # j => messages[i].id # messages[j].id
    /\ \A id \in DOMAIN showSQL :
           Cardinality({i \in 1..Len(messages) : messages[i].id = id}) = 1

====
